---- MODULE Spec2Model ----
(***************************************************************************)
(* Model of the asynchronous 3D-generation pipeline of MenuVerse3D:        *)
(* the POST /api/generate-3d handler with its detached orchestration task  *)
(* (server/routes.ts), the generation_jobs and models_3d tables            *)
(* (shared/schema.ts) and the storage methods that touch them              *)
(* (DatabaseStorage).                                                      *)
(*                                                                         *)
(* Every `await` of the detached task is an interleaving point: one action *)
(* per awaited call, carrying the synchronous code that follows it up to   *)
(* the next await.  An awaited call either returns or throws; a throw is   *)
(* routed to the try/catch that encloses the call in the source.           *)
(***************************************************************************)
EXTENDS Integers, Sequences, FiniteSets, TLC

VARIABLES
    token,            \* process.env.REPLICATE_API_TOKEN is set
    replicate,        \* the cached Replicate client is non-null
    generationJobs,   \* table generation_jobs: sequence of rows, id = index
    models3D,         \* table models_3d: sequence of rows, id = index
    pc,               \* per job id: the await the detached task is parked at
    output,           \* per job id: the task's local `output?.mesh`
    downloadError,    \* per job id: the error bound by the inner catch
    caught,           \* per job id: the error bound by the outer catch
    createdAfter,     \* per job id: the jobs whose tasks had ended when the
                      \* job was created (history of created_at)
    insertedBy,       \* per models_3d row: the job whose task inserted it
                      \* (history)
    progressWrites,   \* per job id: the progress values the task's updates
                      \* have written, in order (history)
    modelsDir,        \* uploads/models: filename -> the job whose mesh the
                      \* file holds
    events,           \* per job id: the calls the task has made and the
                      \* updates it has persisted, in order (history)
    imagesDir,        \* uploads/images: the number of files (their names
                      \* carry Date.now() and a random number)
    lastResponse,     \* the response to the most recent request: its route,
                      \* its status code and, for a 202, the job in its body
    \* the dashboard page (client/src/pages/dashboard.tsx)
    now,              \* time since generate3DMutation's onSuccess ran, in
                      \* periods of 30 s
    pollJob,          \* job.id in onSuccess's closure; 0 before onSuccess
    pollInterval,     \* the setInterval timer: "none", "active", "cleared"
    nextPoll,         \* the time the interval timer is next due
    giveUp,           \* the 5-minute setTimeout is pending
    polls,            \* the get-by-id requests the poller has issued
    inFlight,         \* the poller's requests not yet answered
    observed,         \* updatedJob.status of the last answered poll
    \* the public menu page (client/src/pages/categories.tsx)
    queryData,        \* query.state.data of the /api/generation-jobs query
    refetchDue,       \* a fetch of the query is due
    sinceTerminal     \* the periods of 30 s that have passed with every
                      \* job of the ledger completed or failed and its task
                      \* ended

vars == <<token, replicate, generationJobs, models3D, pc, output,
          downloadError, caught, createdAfter, insertedBy, progressWrites,
          modelsDir, events, imagesDir, lastResponse,
          now, pollJob, pollInterval, nextPoll, giveUp, polls, inFlight,
          observed, queryData, refetchDue, sinceTerminal>>

\* the variables of the public menu page
menuPage == <<queryData, refetchDue, sinceTerminal>>

\* the variables of the dashboard page
dashboard ==
    <<now, pollJob, pollInterval, nextPoll, giveUp, polls, inFlight, observed>>

-----------------------------------------------------------------------------
(* Bounds *)

MaxJobs == 2

\* files that uploads/images can hold
MaxImages == 2

-----------------------------------------------------------------------------
(* Values *)

NULL == "NULL"

\* rows of the menu_items table (the catalog is a collaborator, held fixed)
menuItems == {"D1", "D2"}

\* menuItemId values a request body can carry; "" is an absent field
BodyMenuItemIds == {"", "D1", "D2", "DX"}

\* asset references the provider can return in output.mesh; NULL is an
\* output without a mesh property
RemoteBase == "https://replicate.delivery/out/"
Basenames == {"a.glb", "mesh"}
MeshUrls == {RemoteBase \o b : b \in Basenames}

Basename(url) == CHOOSE b \in Basenames : url = RemoteBase \o b

IncludesDot(filename) == filename \in {"a.glb"}

\* errors an awaited call can throw: error.response.status (0 when the error
\* has no response) and error.message ("" when it has none)
DbError == [status |-> 0, message |-> "database error"]
UniqueViolation ==
    [status |-> 0,
     message |-> "duplicate key value violates unique constraint"]
DownloadFailed == [status |-> 0, message |-> "Failed to download model"]
ReadFileError == [status |-> 0, message |-> "ENOENT: no such file or directory"]
NoMeshError == [status |-> 0, message |-> "No mesh URL in output from Replicate"]
NoClientError == [status |-> 0, message |-> "Replicate client not initialized"]
RunErrors ==
    { [status |-> 401, message |-> "Unauthorized"],
      [status |-> 500, message |-> "Internal Server Error"],
      [status |-> 500, message |-> ""],
      [status |-> 0, message |-> "fetch failed"],
      [status |-> 0, message |-> ""] }
NoError == [status |-> 0, message |-> "none"]

\* the body of a response that carries no job
NoJob == [id |-> 0, job |-> [menuItemId |-> NULL]]

\* before the first request
NoResponse == [route |-> "", code |-> 0, body |-> NoJob]


-----------------------------------------------------------------------------
(* Storage *)

JobIds == 1..Len(generationJobs)

\* a row that a select did not find
undefined == [menuItemId |-> NULL]

\* DatabaseStorage.getGenerationJob
getGenerationJob(id) ==
    IF id \in JobIds THEN generationJobs[id] ELSE undefined

\* mutant: the job is inserted as already processing
NewJobRow_Processing(menuItemId) ==
    [menuItemId |-> menuItemId, status |-> "processing", modelUrl |-> NULL,
     error |-> NULL, progress |-> 10, completedAt |-> NULL]

\* the row createGenerationJob inserts: columns not given take the schema's
\* defaults
NewJobRow(menuItemId) ==
    [menuItemId |-> menuItemId, status |-> "pending", modelUrl |-> NULL,
     error |-> NULL, progress |-> 0, completedAt |-> NULL]

\* mutant: UPDATE ... SET updates, without the WHERE clause
updateGenerationJob_NoWhere(id, updates) ==
    [i \in JobIds |->
        [f \in DOMAIN generationJobs[i] |->
            IF f \in DOMAIN updates THEN updates[f]
            ELSE generationJobs[i][f]]]

\* DatabaseStorage.updateGenerationJob: UPDATE ... SET updates WHERE id = id
updateGenerationJob(id, updates) ==
    [generationJobs EXCEPT ![id] =
        [f \in DOMAIN @ |-> IF f \in DOMAIN updates THEN updates[f] ELSE @[f]]]

\* mutant: menu_item_id without the UNIQUE constraint
Create3DModelRejected_NotUnique(menuItemId) == menuItemId \notin menuItems

\* models_3d.menu_item_id is UNIQUE and references menu_items
Create3DModelRejected(menuItemId) ==
    \/ menuItemId \notin menuItems
    \/ \E k \in 1..Len(models3D) : models3D[k].menuItemId = menuItemId

\* DatabaseStorage.create3DModel: a plain INSERT
create3DModel(menuItemId, modelUrl) ==
    Append(models3D, [menuItemId |-> menuItemId, modelUrl |-> modelUrl])

\* DatabaseStorage.get3DModel and the rows it selects from
ModelsOf(menuItemId) ==
    {k \in 1..Len(models3D) : models3D[k].menuItemId = menuItemId}

\* getReplicateClient: the client after the call
getReplicateClient == replicate \/ token

-----------------------------------------------------------------------------

Init ==
    /\ token \in BOOLEAN
    /\ replicate = FALSE
    /\ generationJobs = <<>>
    /\ models3D = <<>>
    /\ pc = <<>>
    /\ output = <<>>
    /\ downloadError = <<>>
    /\ caught = <<>>
    /\ createdAfter = <<>>
    /\ insertedBy = <<>>
    /\ progressWrites = <<>>
    /\ modelsDir = <<>>
    /\ events = <<>>
    /\ imagesDir = 0
    /\ lastResponse = NoResponse
    /\ now = 0
    /\ pollJob = 0
    /\ pollInterval = "none"
    /\ nextPoll = 0
    /\ giveUp = FALSE
    /\ polls = 0
    /\ inFlight = 0
    /\ observed = "none"
    /\ queryData = <<>>
    /\ refetchDue = TRUE
    /\ sinceTerminal = 0

-----------------------------------------------------------------------------
(* GET /api/generation-jobs/:id *)

\* mutant: the handler without its check of `!job`
GetJobById_NoCheck(id, dbOk) ==
    IF ~dbOk THEN [code |-> 500, body |-> NoJob]
    ELSE [code |-> 200, body |-> [id |-> id, job |-> getGenerationJob(id)]]

\* the handler's response; dbOk: the select returned rather than threw
GetJobById(id, dbOk) ==
    IF ~dbOk THEN [code |-> 500, body |-> NoJob]
    ELSE IF getGenerationJob(id) = undefined
        THEN [code |-> 404, body |-> NoJob]
    ELSE [code |-> 200, body |-> [id |-> id, job |-> getGenerationJob(id)]]

\* the values of req.params.id: the ids of the ledger and an unknown one
JobIdParams == 1..(MaxJobs + 1)

\* app.get("/api/generation-jobs/:id"): one select, then the response
GetGenerationJob(id) ==
    /\ UNCHANGED <<token, imagesDir, replicate, generationJobs, models3D, pc,
                   output, downloadError, caught, createdAfter, insertedBy,
                   progressWrites, events, modelsDir>>
    /\ UNCHANGED <<dashboard, menuPage>>
    /\ \E dbOk \in BOOLEAN :
        lastResponse' = [route |-> "GET /api/generation-jobs/:id",
                         code |-> GetJobById(id, dbOk).code,
                         body |-> NoJob]

-----------------------------------------------------------------------------
(* GET /api/generation-jobs *)

\* DatabaseStorage.getAllGenerationJobs
getAllGenerationJobs == generationJobs

\* the handler's response; dbOk: the select returned rather than threw
GetJobs(dbOk) ==
    IF ~dbOk THEN [code |-> 500, body |-> <<>>]
    ELSE [code |-> 200, body |-> getAllGenerationJobs]

\* app.get("/api/generation-jobs"): one select, then the response
GetGenerationJobs ==
    /\ UNCHANGED <<token, imagesDir, replicate, generationJobs, models3D, pc,
                   output, downloadError, caught, createdAfter, insertedBy,
                   progressWrites, events, modelsDir>>
    /\ UNCHANGED <<dashboard, menuPage>>
    /\ \E dbOk \in BOOLEAN :
        lastResponse' = [route |-> "GET /api/generation-jobs",
                         code |-> GetJobs(dbOk).code,
                         body |-> NoJob]

-----------------------------------------------------------------------------
(* POST /api/generate-3d: upload.single('image') and the handler *)

\* multer limits.fileSize, in MiB
FileSizeLimit == 10

ImageFile == [mimetype |-> "image/jpeg", size |-> 1]
TextFile == [mimetype |-> "text/plain", size |-> 1]
HugeFile == [mimetype |-> "image/jpeg", size |-> 11]

\* the parts of a multipart request: body.menuItemId and the files sent in
\* field 'image'
Requests ==
    [menuItemId : BodyMenuItemIds,
     files : {<<>>, <<ImageFile>>, <<TextFile>>, <<HugeFile>>,
              <<ImageFile, ImageFile>>}]

IsImage(file) == file.mimetype \in {"image/jpeg"}

\* mutant: upload.array('image') in place of upload.single('image')
MulterError_Array(files) ==
    IF Len(files) = 0 THEN NoError
    ELSE IF ~IsImage(files[1])
        THEN [status |-> 0, message |-> "Only image files are allowed"]
    ELSE IF files[1].size > FileSizeLimit
        THEN [status |-> 0, message |-> "Upload error: File too large"]
    ELSE NoError

\* upload.single('image'): the error passed to the callback, or NoError
MulterError(files) ==
    IF Len(files) = 0 THEN NoError
    ELSE IF ~IsImage(files[1])
        THEN [status |-> 0, message |-> "Only image files are allowed"]
    ELSE IF files[1].size > FileSizeLimit
        THEN [status |-> 0, message |-> "Upload error: File too large"]
    ELSE IF Len(files) > 1
        THEN [status |-> 0, message |-> "Upload error: Unexpected field"]
    ELSE NoError

\* res.status(code).json({ error })
Reply(code, error) == [code |-> code, error |-> error]

\* what lastResponse keeps of a reply
Sent(reply) ==
    [route |-> "POST /api/generate-3d", code |-> reply.code, body |-> NoJob]

\* res.status(202).json(job)
Accepted(id, job) ==
    [route |-> "POST /api/generate-3d", code |-> 202,
     body |-> [id |-> id, job |-> job]]

NotRejected == Reply(0, "")

\* a request that passes the upload checks and the handler's field checks:
\* a dish identifier and exactly one image of at most FileSizeLimit
PassesValidation(r) ==
    /\ r.menuItemId # ""
    /\ Len(r.files) = 1
    /\ r.files[1].mimetype = "image/jpeg"
    /\ r.files[1].size <= FileSizeLimit

\* mutant: the handler checks getReplicateClient before the request's fields
Rejection_ClientCheckFirst(r) ==
    IF MulterError(r.files) # NoError
        THEN Reply(400, MulterError(r.files).message)
    ELSE IF ~getReplicateClient
        THEN Reply(503, "Replicate API not configured")
    ELSE IF r.menuItemId = ""
        THEN Reply(400, "menuItemId is required")
    ELSE IF Len(r.files) = 0
        THEN Reply(400, "1 image is required")
    ELSE NotRejected

\* mutant: the handler without the check of getReplicateClient
Rejection_NoClientCheck(r) ==
    IF MulterError(r.files) # NoError
        THEN Reply(400, MulterError(r.files).message)
    ELSE IF r.menuItemId = ""
        THEN Reply(400, "menuItemId is required")
    ELSE IF Len(r.files) = 0
        THEN Reply(400, "1 image is required")
    ELSE Reply(0, "")

\* the rejections that precede the ledger insert, in the handler's order;
\* NotRejected when the request passes them all
Rejection(r) ==
    IF MulterError(r.files) # NoError
        THEN Reply(400, MulterError(r.files).message)
    ELSE IF r.menuItemId = ""
        THEN Reply(400, "menuItemId is required")
    ELSE IF Len(r.files) = 0
        THEN Reply(400, "1 image is required")
    ELSE IF ~getReplicateClient
        THEN Reply(503, "Replicate API not configured")
    ELSE NotRejected

\* upload.single('image') has written the request's file to uploads/images:
\* the upload raised no error and carried a file (on an error multer removes
\* what it has written)
Stored(r) == MulterError(r.files) = NoError /\ Len(r.files) = 1

\* the jobs whose detached task has run to its end
Ended == {j \in JobIds : pc[j] \in {"done", "unhandledRejection"}}

\* generation_jobs.menu_item_id references menu_items
CreateGenerationJobRejected(menuItemId) == menuItemId \notin menuItems

\* the request got past the checks that precede getReplicateClient
ReachesClientCheck(r) ==
    /\ MulterError(r.files) = NoError
    /\ r.menuItemId # ""
    /\ Len(r.files) # 0

Generate3D(r) ==
    /\ UNCHANGED <<token, models3D, insertedBy, modelsDir>>
    /\ Stored(r) => imagesDir < MaxImages
    /\ imagesDir' = IF Stored(r) THEN imagesDir + 1 ELSE imagesDir
    /\ IF Rejection(r) # NotRejected
       THEN /\ UNCHANGED <<generationJobs, progressWrites, events, pc, output,
                downloadError, caught, createdAfter>>
            /\ lastResponse' = Sent(Rejection(r))
       ELSE \E dbOk \in BOOLEAN :
            IF ~dbOk \/ CreateGenerationJobRejected(r.menuItemId)
            THEN \* createGenerationJob throws: the handler's catch
                 /\ UNCHANGED <<generationJobs, progressWrites, events, pc,
                                output, downloadError, caught, createdAfter>>
                 /\ lastResponse' =
                        Sent(Reply(500, IF dbOk
                                        THEN "violates foreign key constraint"
                                        ELSE DbError.message))
            ELSE /\ Len(generationJobs) < MaxJobs
                 /\ generationJobs' =
                        Append(generationJobs, NewJobRow(r.menuItemId))
                 \* the detached task runs up to its first await
                 /\ pc' = Append(pc, "update10")
                 /\ output' = Append(output, NULL)
                 /\ downloadError' = Append(downloadError, NoError)
                 /\ caught' = Append(caught, NoError)
                 /\ createdAfter' = Append(createdAfter, Ended)
                 /\ progressWrites' = Append(progressWrites, <<>>)
                 /\ events' = Append(events, <<>>)
                 /\ lastResponse' =
                        Accepted(Len(generationJobs) + 1,
                                 NewJobRow(r.menuItemId))
    /\ replicate' = IF ReachesClientCheck(r) THEN getReplicateClient
                    ELSE replicate

-----------------------------------------------------------------------------------------------------------------------------------------------------
(* The detached task started by the handler, one action per await *)

Job(j) == generationJobs[j]

Goto(j, label) == pc' = [pc EXCEPT ![j] = label]

\* control passes to the outer catch with `error`
Throw(j, error) ==
    /\ Goto(j, "catch")
    /\ caught' = [caught EXCEPT ![j] = error]

\* control passes to the inner catch with `error`, which issues the fallback
\* update
ThrowInner(j, error) ==
    /\ Goto(j, "fallbackUpdate")
    /\ downloadError' = [downloadError EXCEPT ![j] = error]

\* entries of events: a call the task issues, a call that has returned, an
\* update that updateGenerationJob has persisted
Called(op) == [op |-> op]

Returned(op) == [op |-> op, returned |-> TRUE]

Wrote(updates) == [op |-> "updateGenerationJob", updates |-> updates]

Logged(j, es) == events' = [events EXCEPT ![j] = @ \o es]

\* an awaited updateGenerationJob(job.id, updates) returns
Updated(j, updates) ==
    /\ generationJobs' = updateGenerationJob(j, updates)
    /\ progressWrites' =
            IF "progress" \in DOMAIN updates
            THEN [progressWrites EXCEPT ![j] = Append(@, updates.progress)]
            ELSE progressWrites

TaskFrame ==
    /\ UNCHANGED <<token, imagesDir, replicate, createdAfter, lastResponse>>
    /\ UNCHANGED <<dashboard, menuPage>>

\* mutant: the first update sets the status only
ProcessingUpdate_StatusOnly == [status |-> "processing"]

\* the updates the task passes to updateGenerationJob
ProcessingUpdate == [status |-> "processing", progress |-> 10]

ProgressUpdate(n) == [progress |-> n]

CompletedUpdate(modelUrl) ==
    [status |-> "completed", modelUrl |-> modelUrl, progress |-> 100]

\* outer catch: the text stored in the job's error column
ErrorMessage(error) ==
    IF error.status = 401
        THEN "Replicate API authentication failed. Please check your REPLICATE_API_TOKEN in .env.local"
    ELSE IF error.status # 0
        THEN "Replicate API error (" \o ToString(error.status) \o "): "
             \o (IF error.message # "" THEN error.message ELSE "Unknown error")
    ELSE IF error.message # "" THEN error.message
    ELSE "3D generation failed"

\* mutant: the outer catch also resets the progress column
FailedUpdate_ResetsProgress(error) ==
    [status |-> "failed", error |-> ErrorMessage(error), progress |-> 0]

FailedUpdate(error) == [status |-> "failed", error |-> ErrorMessage(error)]

\* filename derived from the provider's URL
Filename(modelUrl) ==
    IF IncludesDot(Basename(modelUrl)) THEN Basename(modelUrl)
    ELSE Basename(modelUrl) \o ".glb"

SavedModelUrl(modelUrl) == "/uploads/models/" \o Filename(modelUrl)

\* await storage.updateGenerationJob(job.id, {status: "processing", progress: 10})
Update10(j) ==
    /\ pc[j] = "update10"
    /\ TaskFrame
    /\ UNCHANGED <<models3D, insertedBy, output, modelsDir, downloadError>>
    /\ \E dbOk \in BOOLEAN :
        IF dbOk
        THEN /\ Updated(j, ProcessingUpdate)
             /\ Logged(j, <<Wrote(ProcessingUpdate)>>)
             /\ Goto(j, "readFile")
             /\ UNCHANGED caught
        ELSE /\ Throw(j, DbError)
             /\ UNCHANGED <<generationJobs, progressWrites, events>>

\* await readFile(imagePath), then the update to progress 30 is issued
ReadFile(j) ==
    /\ pc[j] = "readFile"
    /\ TaskFrame
    /\ UNCHANGED <<generationJobs, progressWrites, events, models3D,
                   insertedBy, output, modelsDir, downloadError>>
    /\ \E fsOk \in BOOLEAN :
        IF fsOk
        THEN Goto(j, "update30") /\ UNCHANGED caught
        ELSE Throw(j, ReadFileError)

\* await storage.updateGenerationJob(job.id, {progress: 30}), then
\* getReplicateClient and the call of replicateClient.run
Update30(j) ==
    /\ pc[j] = "update30"
    /\ UNCHANGED <<dashboard, menuPage>>
    /\ UNCHANGED <<token, imagesDir, createdAfter, lastResponse, models3D,
                   insertedBy, output, modelsDir, downloadError>>
    /\ \E dbOk \in BOOLEAN :
        IF dbOk
        THEN /\ Updated(j, ProgressUpdate(30))
             /\ Logged(j, IF getReplicateClient
                          THEN <<Wrote(ProgressUpdate(30)), Called("run")>>
                          ELSE <<Wrote(ProgressUpdate(30))>>)
             /\ replicate' = getReplicateClient
             /\ IF getReplicateClient
                THEN Goto(j, "run") /\ UNCHANGED caught
                ELSE Throw(j, NoClientError)
        ELSE /\ Throw(j, DbError)
             /\ UNCHANGED <<generationJobs, progressWrites, events, replicate>>

\* await replicateClient.run(...): returns an output or throws; on return
\* the update to progress 60 is issued
Run(j) ==
    /\ pc[j] = "run"
    /\ TaskFrame
    /\ UNCHANGED <<generationJobs, progressWrites, models3D, insertedBy,
                   downloadError>>
    /\ \/ \E mesh \in MeshUrls \cup {NULL} :
            /\ output' = [output EXCEPT ![j] = mesh]
            /\ Logged(j, <<Returned("run")>>)
            /\ Goto(j, "update60")
            /\ UNCHANGED <<caught, modelsDir>>
       \/ \E error \in RunErrors :
            /\ Throw(j, error)
            /\ UNCHANGED <<output, modelsDir, events>>

\* await storage.updateGenerationJob(job.id, {progress: 60}), then the mesh
\* check and the update to progress 70 is issued
Update60(j) ==
    /\ pc[j] = "update60"
    /\ TaskFrame
    /\ UNCHANGED <<models3D, insertedBy, output, modelsDir, downloadError>>
    /\ \E dbOk \in BOOLEAN :
        IF dbOk
        THEN /\ Updated(j, ProgressUpdate(60))
             /\ Logged(j, <<Wrote(ProgressUpdate(60))>>)
             /\ IF output[j] = NULL
                THEN Throw(j, NoMeshError)
                ELSE Goto(j, "update70") /\ UNCHANGED caught
        ELSE /\ Throw(j, DbError)
             /\ UNCHANGED <<generationJobs, progressWrites, events>>

\* await storage.updateGenerationJob(job.id, {progress: 70}); the inner try
\* is entered
Update70(j) ==
    /\ pc[j] = "update70"
    /\ TaskFrame
    /\ UNCHANGED <<models3D, insertedBy, output, modelsDir, downloadError>>
    /\ \E dbOk \in BOOLEAN :
        IF dbOk
        THEN /\ Updated(j, ProgressUpdate(70))
             /\ Logged(j, <<Wrote(ProgressUpdate(70)), Called("download")>>)
             /\ Goto(j, "download")
             /\ UNCHANGED caught
        ELSE /\ Throw(j, DbError)
             /\ UNCHANGED <<generationJobs, progressWrites, events>>

\* writeFile(modelPath, buffer): creates the file or replaces its content
writeFile(filename, buffer) ==
    [f \in DOMAIN modelsDir \cup {filename} |->
        IF f = filename THEN buffer ELSE modelsDir[f]]

\* inner try: mkdir, fetch(modelUrl), response.ok, arrayBuffer, writeFile;
\* on success the update to completed is issued
Download(j) ==
    /\ pc[j] = "download"
    /\ TaskFrame
    /\ UNCHANGED <<generationJobs, progressWrites, events, models3D,
                   insertedBy, output, caught>>
    /\ \E downloaded \in BOOLEAN :
        IF downloaded
        THEN /\ modelsDir' = writeFile(Filename(output[j]), j)
             /\ Goto(j, "updateCompleted")
             /\ UNCHANGED downloadError
        ELSE /\ ThrowInner(j, DownloadFailed)
             /\ UNCHANGED modelsDir

\* inner try: await storage.updateGenerationJob(job.id, {status: "completed",
\* modelUrl: savedModelUrl, progress: 100})
UpdateCompleted(j) ==
    /\ pc[j] = "updateCompleted"
    /\ TaskFrame
    /\ UNCHANGED <<models3D, insertedBy, output, modelsDir, caught>>
    /\ \E dbOk \in BOOLEAN :
        IF dbOk
        THEN /\ Updated(j, CompletedUpdate(SavedModelUrl(output[j])))
             /\ Logged(j, <<Wrote(CompletedUpdate(SavedModelUrl(output[j]))),
                            Called("create3DModel")>>)
             /\ Goto(j, "create3DModel")
             /\ UNCHANGED downloadError
        ELSE /\ ThrowInner(j, DbError)
             /\ UNCHANGED <<generationJobs, progressWrites, events>>

\* mutant: the inner try throws after its insert has succeeded
Create3DModel_InsertThenThrow(j) ==
    /\ pc[j] = "create3DModel"
    /\ TaskFrame
    /\ UNCHANGED <<generationJobs, progressWrites, events, output, modelsDir,
                   caught>>
    /\ \E dbOk \in BOOLEAN :
        IF dbOk /\ ~Create3DModelRejected(Job(j).menuItemId)
        THEN /\ models3D' = create3DModel(Job(j).menuItemId,
                                          SavedModelUrl(output[j]))
             /\ insertedBy' = Append(insertedBy, j)
             /\ ThrowInner(j, DbError)
        ELSE /\ ThrowInner(j, IF dbOk THEN UniqueViolation ELSE DbError)
             /\ UNCHANGED <<models3D, insertedBy>>

\* inner try: await storage.create3DModel({menuItemId, modelUrl: savedModelUrl})
Create3DModel(j) ==
    /\ pc[j] = "create3DModel"
    /\ TaskFrame
    /\ UNCHANGED <<generationJobs, progressWrites, events, output, modelsDir,
                   caught>>
    /\ \E dbOk \in BOOLEAN :
        IF dbOk /\ ~Create3DModelRejected(Job(j).menuItemId)
        THEN /\ models3D' = create3DModel(Job(j).menuItemId,
                                          SavedModelUrl(output[j]))
             /\ insertedBy' = Append(insertedBy, j)
             /\ Goto(j, "done")
             /\ UNCHANGED downloadError
        ELSE /\ ThrowInner(j, IF dbOk THEN UniqueViolation ELSE DbError)
             /\ UNCHANGED <<models3D, insertedBy>>

\* inner catch: await storage.updateGenerationJob(job.id, {status: "completed",
\* modelUrl: modelUrl, progress: 100})
FallbackUpdate(j) ==
    /\ pc[j] = "fallbackUpdate"
    /\ TaskFrame
    /\ UNCHANGED <<models3D, insertedBy, output, modelsDir, downloadError>>
    /\ \E dbOk \in BOOLEAN :
        IF dbOk
        THEN /\ Updated(j, CompletedUpdate(output[j]))
             /\ Logged(j, <<Wrote(CompletedUpdate(output[j])),
                            Called("create3DModel")>>)
             /\ Goto(j, "fallbackCreate")
             /\ UNCHANGED caught
        ELSE /\ Throw(j, DbError)
             /\ UNCHANGED <<generationJobs, progressWrites, events>>

\* inner catch: await storage.create3DModel({menuItemId, modelUrl: modelUrl})
FallbackCreate(j) ==
    /\ pc[j] = "fallbackCreate"
    /\ TaskFrame
    /\ UNCHANGED <<generationJobs, progressWrites, events, output, modelsDir,
                   downloadError>>
    /\ \E dbOk \in BOOLEAN :
        IF dbOk /\ ~Create3DModelRejected(Job(j).menuItemId)
        THEN /\ models3D' = create3DModel(Job(j).menuItemId, output[j])
             /\ insertedBy' = Append(insertedBy, j)
             /\ Goto(j, "done")
             /\ UNCHANGED caught
        ELSE /\ Throw(j, IF dbOk THEN UniqueViolation ELSE DbError)
             /\ UNCHANGED <<models3D, insertedBy>>

\* mutant: the outer catch starts the task over after recording the failure
Catch_Retry(j) ==
    /\ pc[j] = "catch"
    /\ TaskFrame
    /\ UNCHANGED <<models3D, insertedBy, output, modelsDir, downloadError,
                   caught>>
    /\ \E dbOk \in BOOLEAN :
        IF dbOk
        THEN /\ Updated(j, FailedUpdate(caught[j]))
             /\ Logged(j, <<Wrote(FailedUpdate(caught[j]))>>)
             /\ Goto(j, "update10")
        ELSE /\ Goto(j, "unhandledRejection")
             /\ UNCHANGED <<generationJobs, progressWrites, events>>

\* outer catch: await storage.updateGenerationJob(job.id, {status: "failed",
\* error: errorMessage}); a throw here rejects the task's promise, which
\* nothing handles
Catch(j) ==
    /\ pc[j] = "catch"
    /\ TaskFrame
    /\ UNCHANGED <<models3D, insertedBy, output, modelsDir, downloadError,
                   caught>>
    /\ \E dbOk \in BOOLEAN :
        IF dbOk
        THEN /\ Updated(j, FailedUpdate(caught[j]))
             /\ Logged(j, <<Wrote(FailedUpdate(caught[j]))>>)
             /\ Goto(j, "done")
        ELSE /\ Goto(j, "unhandledRejection")
             /\ UNCHANGED <<generationJobs, progressWrites, events>>

-----------------------------------------------------------------------------

Next ==
    \/ \E r \in Requests : Generate3D(r) /\ UNCHANGED <<dashboard, menuPage>>
    \/ \E id \in JobIdParams : GetGenerationJob(id)
    \/ GetGenerationJobs
    \/ \E j \in JobIds : Update10(j)
    \/ \E j \in JobIds : ReadFile(j)
    \/ \E j \in JobIds : Update30(j)
    \/ \E j \in JobIds : Run(j)
    \/ \E j \in JobIds : Update60(j)
    \/ \E j \in JobIds : Update70(j)
    \/ \E j \in JobIds : Download(j)
    \/ \E j \in JobIds : UpdateCompleted(j)
    \/ \E j \in JobIds : Create3DModel(j)
    \/ \E j \in JobIds : FallbackUpdate(j)
    \/ \E j \in JobIds : FallbackCreate(j)
    \/ \E j \in JobIds : Catch(j)

Spec == Init /\ [][Next]_vars

-----------------------------------------------------------------------------
(* The dashboard's poller: generate3DMutation (client/src/pages/dashboard.tsx) *)

\* the variables of the server
server ==
    <<token, replicate, generationJobs, models3D, pc, output, downloadError,
      caught, createdAfter, insertedBy, progressWrites, modelsDir, events,
      imagesDir, lastResponse>>

\* 5 * 60 * 1000 ms, in periods of 30000 ms
GiveUpAfter == 10

\* the interval timer is due
IntervalDue == pollInterval = "active" /\ nextPoll <= now

\* the setTimeout timer is due
GiveUpDue == giveUp /\ now >= GiveUpAfter

\* clearInterval(pollInterval)
clearInterval == pollInterval' = "cleared"

\* onSuccess: setInterval(..., 30000) and setTimeout(..., 5 * 60 * 1000)
onSuccess(job) ==
    /\ pollJob' = job.id
    /\ pollInterval' = "active"
    /\ nextPoll' = now + 1
    /\ giveUp' = TRUE
    /\ UNCHANGED <<now, polls, inFlight, observed>>

\* generate3DMutation: the POST, then onSuccess when response.ok and onError
\* (a toast) otherwise; the page is followed up to its first accepted job
Mutate(r) ==
    /\ pollInterval = "none"
    /\ Generate3D(r)
    /\ UNCHANGED menuPage
    /\ IF lastResponse'.code = 202
          THEN onSuccess(lastResponse'.body)
          ELSE UNCHANGED dashboard

\* updatedJob.status of a poll's answer: a 404 or 500 body has no status, and
\* a fetch that throws is caught and logged
StatusOf(response) ==
    IF response.code = 200 THEN response.body.job.status ELSE "undefined"

\* a poller that re-arms a cleared interval when it is due
PollTick_AfterClear ==
    /\ pollInterval # "none" /\ nextPoll <= now
    /\ polls' = polls + 1
    /\ inFlight' = inFlight + 1
    /\ nextPoll' = now + 1
    /\ UNCHANGED <<now, pollJob, pollInterval, giveUp, observed>>
    /\ UNCHANGED <<server, menuPage>>

\* the interval's callback up to its await: fetch(`/api/generation-jobs/${job.id}`)
PollTick ==
    /\ IntervalDue
    /\ polls' = polls + 1
    /\ inFlight' = inFlight + 1
    /\ nextPoll' = now + 1
    /\ UNCHANGED <<now, pollJob, pollInterval, giveUp, observed>>
    /\ UNCHANGED <<server, menuPage>>

\* the callback after its await: the answer of the get-by-id handler (fetched:
\* the fetch did not throw; dbOk: the handler's select did not throw)
PollAnswer ==
    /\ inFlight > 0
    /\ inFlight' = inFlight - 1
    /\ \E fetched \in BOOLEAN, dbOk \in BOOLEAN :
          /\ observed' = IF fetched THEN StatusOf(GetJobById(pollJob, dbOk))
                                    ELSE "error"
          /\ IF observed' \in {"completed", "failed"}
                THEN clearInterval
                ELSE UNCHANGED pollInterval
    /\ UNCHANGED <<now, pollJob, nextPoll, giveUp, polls>>
    /\ UNCHANGED <<server, menuPage>>

\* setTimeout's callback
GiveUp ==
    /\ GiveUpDue
    /\ giveUp' = FALSE
    /\ clearInterval
    /\ UNCHANGED <<now, pollJob, nextPoll, polls, inFlight, observed>>
    /\ UNCHANGED <<server, menuPage>>

\* 30 s pass: no timer is due and one is pending
Advance ==
    /\ pollInterval = "active" \/ giveUp
    /\ ~IntervalDue /\ ~GiveUpDue
    /\ now' = now + 1
    /\ UNCHANGED <<pollJob, pollInterval, nextPoll, giveUp, polls, inFlight,
                   observed>>
    /\ UNCHANGED <<server, menuPage>>

DashboardNext ==
    \/ \E r \in Requests : Mutate(r)
    \/ PollTick
    \/ PollAnswer
    \/ GiveUp
    \/ Advance
    \/ \E j \in JobIds : Update10(j)
    \/ \E j \in JobIds : ReadFile(j)
    \/ \E j \in JobIds : Update30(j)
    \/ \E j \in JobIds : Run(j)
    \/ \E j \in JobIds : Update60(j)
    \/ \E j \in JobIds : Update70(j)
    \/ \E j \in JobIds : Download(j)
    \/ \E j \in JobIds : UpdateCompleted(j)
    \/ \E j \in JobIds : Create3DModel(j)
    \/ \E j \in JobIds : FallbackUpdate(j)
    \/ \E j \in JobIds : FallbackCreate(j)
    \/ \E j \in JobIds : Catch(j)

DashboardSpec == Init /\ [][DashboardNext]_vars

\* time passes and a due timer's callback runs (the browser's event loop);
\* nothing is assumed of the server
DashboardFairSpec ==
    /\ DashboardSpec
    /\ WF_vars(Advance)
    /\ WF_vars(PollTick)
    /\ WF_vars(GiveUp)

-----------------------------------------------------------------------------
(* The public menu page's job-list query (client/src/pages/categories.tsx) *)

\* the most periods of 30 s the page is followed after every job is terminal
MaxSinceTerminal == 6

\* the 2 minutes of the query's comment, in periods of 30000 ms
GracePeriod == 4

\* menuItems?.map(item => item.id): the dishes of the page's restaurant
menuItemIds == {"D1"}

\* refetchInterval's false
NoRefetch == 0

\* hasProcessingJobs
hasProcessingJobs(jobs) ==
    \E k \in 1..Len(jobs) :
        /\ jobs[k].menuItemId \in menuItemIds
        /\ jobs[k].status \in {"processing", "pending"}

\* hasCompletedJobs
hasCompletedJobs(jobs) ==
    \E k \in 1..Len(jobs) :
        /\ jobs[k].menuItemId \in menuItemIds
        /\ jobs[k].status = "completed"
        /\ jobs[k].modelUrl # NULL

\* refetchInterval of the query, on query.state.data || []
refetchInterval(jobs) ==
    IF hasProcessingJobs(jobs) \/ hasCompletedJobs(jobs)
        THEN 30000 ELSE NoRefetch

\* the query's fetch: GET /api/generation-jobs; a failed fetch keeps the data
Refetch ==
    /\ refetchDue
    /\ refetchDue' = FALSE
    /\ \E dbOk \in BOOLEAN :
          queryData' = IF GetJobs(dbOk).code = 200 THEN getAllGenerationJobs
                                                   ELSE queryData
    /\ UNCHANGED sinceTerminal
    /\ UNCHANGED <<server, dashboard>>

\* 30 s pass: the query's timer, when refetchInterval set one, is due
MenuAdvance ==
    /\ ~refetchDue
    /\ sinceTerminal < MaxSinceTerminal
    /\ refetchDue' = (refetchInterval(queryData) # NoRefetch)
    /\ sinceTerminal' =
          IF \A j \in JobIds : /\ Job(j).status \in {"completed", "failed"}
                                /\ pc[j] \in {"done", "unhandledRejection"}
             THEN sinceTerminal + 1 ELSE 0
    /\ UNCHANGED queryData
    /\ UNCHANGED <<server, dashboard>>

\* a submission from the dashboard; the page is followed for one job
Submit(r) ==
    /\ generationJobs = <<>>
    /\ Generate3D(r)
    /\ UNCHANGED <<dashboard, menuPage>>

MenuNext ==
    \/ \E r \in Requests : Submit(r)
    \/ Refetch
    \/ MenuAdvance
    \/ \E j \in JobIds : Update10(j)
    \/ \E j \in JobIds : ReadFile(j)
    \/ \E j \in JobIds : Update30(j)
    \/ \E j \in JobIds : Run(j)
    \/ \E j \in JobIds : Update60(j)
    \/ \E j \in JobIds : Update70(j)
    \/ \E j \in JobIds : Download(j)
    \/ \E j \in JobIds : UpdateCompleted(j)
    \/ \E j \in JobIds : Create3DModel(j)
    \/ \E j \in JobIds : FallbackUpdate(j)
    \/ \E j \in JobIds : FallbackCreate(j)
    \/ \E j \in JobIds : Catch(j)

MenuSpec == Init /\ [][MenuNext]_vars

-----------------------------------------------------------------------------
(* Properties *)

Finished(j) == pc[j] \in {"done", "unhandledRejection"}

\* no database call of job j's task failed for lack of the database
NoOutage(j) == caught[j] # DbError /\ downloadError[j] # DbError

\* jobs i and j are for the same dish and j was created after i's task ended
Follows(i, j) ==
    /\ i \in createdAfter[j]
    /\ Job(i).menuItemId = Job(j).menuItemId

\* C1: for every job, modelUrl is set iff status is completed, error is set
\* iff status is failed, and the two are never both set (stated for the jobs
\* whose task met no database outage; a registry insert rejected by the
\* UNIQUE constraint is within it).
C1_ResultAndErrorMatchStatus ==
    \A j \in JobIds : NoOutage(j) =>
        /\ Job(j).modelUrl # NULL <=> Job(j).status = "completed"
        /\ Job(j).error # NULL <=> Job(j).status = "failed"
        /\ ~(Job(j).modelUrl # NULL /\ Job(j).error # NULL)

\* C2: a job whose progress is 100 has status completed (stated for the
\* jobs whose task met no database outage).
C2_Progress100IsCompleted ==
    \A j \in JobIds : NoOutage(j) =>
        (Job(j).progress = 100 => Job(j).status = "completed")

\* C3: when a job for a dish has finished after an earlier job for the same
\* dish completed, and the later job obtained a mesh and met no failure but
\* the registry's rejection, the registry holds exactly one row for the dish,
\* with the later job's modelUrl, and the later job is completed.
C3_SecondJobReplacesArtifact ==
    \A i \in JobIds : \A j \in JobIds :
        ( /\ Follows(i, j)
          /\ Job(i).status = "completed"
          /\ Finished(j)
          /\ output[j] # NULL
          /\ downloadError[j] \in {NoError, DownloadFailed, UniqueViolation}
          /\ caught[j] \in {NoError, UniqueViolation} )
        => /\ Job(j).status = "completed"
           /\ Cardinality(ModelsOf(Job(j).menuItemId)) = 1
           /\ \A k \in ModelsOf(Job(j).menuItemId) :
                 models3D[k].modelUrl = Job(j).modelUrl

\* C4: the registry holds at most one row per dish.
C4_OneArtifactPerDish ==
    \A d \in BodyMenuItemIds : Cardinality(ModelsOf(d)) <= 1

\* two tasks for one dish, neither created after the other ended, have both
\* attempted the insert: one row is stored and the other insert was rejected
C4_Witness ==
    \E i \in JobIds : \E j \in JobIds :
        /\ i # j
        /\ Job(i).menuItemId = Job(j).menuItemId
        /\ i \notin createdAfter[j] /\ j \notin createdAfter[i]
        /\ pc[i] = "done" /\ Job(i).status = "completed"
        /\ Finished(j) /\ caught[j] = UniqueViolation
        /\ Cardinality(ModelsOf(Job(j).menuItemId)) = 1

\* C5: a job whose download or local write failed ends completed, with
\* progress 100 and the provider's URL as modelUrl (stated for the jobs whose
\* task met no database outage).
C5_DownloadFailureStillCompletes ==
    \A j \in JobIds :
        (downloadError[j] = DownloadFailed /\ Finished(j) /\ NoOutage(j))
        => /\ Job(j).status = "completed"
           /\ Job(j).progress = 100
           /\ Job(j).modelUrl = output[j]

\* C6: no exception leaves the task unhandled, and a task that ended in the
\* outer catch left its job failed.
C6_NoUnhandledRejection ==
    \A j \in JobIds :
        /\ pc[j] # "unhandledRejection"
        /\ (Finished(j) /\ caught[j] # NoError) => Job(j).status = "failed"

\* C7: no step lowers the progress stored for a job.
C7_ProgressNeverDecreases ==
    [][\A j \in JobIds : generationJobs'[j].progress >= Job(j).progress]_vars

\* every ledger write of the task has been made: both completed updates and
\* the outer catch's update
C7_Witness ==
    \E j \in JobIds :
        /\ pc[j] = "done"
        /\ downloadError[j] = UniqueViolation
        /\ caught[j] = UniqueViolation
        /\ Job(j).progress = 100

\* a step that answers a request: the steps of the tasks leave lastResponse
\* alone, and a request answered as the one before it changes no variable
Answers == lastResponse' # lastResponse

\* C8 as claimed: with the credential absent every submission is answered 503
\* and inserts no job.
C8_AbsentCredentialAlways503 ==
    [][(~token /\ Answers) =>
        \A r \in Requests : Generate3D(r) =>
            /\ lastResponse'.code = 503
            /\ UNCHANGED <<generationJobs, pc>>]_vars

\* C8 as amended: with the credential absent no submission inserts a job or
\* starts a task; a submission that passes validation is answered 503, any
\* other 400.
C8_AbsentCredentialNoJob ==
    [][(~token /\ Answers) =>
        \A r \in Requests : Generate3D(r) =>
            /\ UNCHANGED <<generationJobs, pc>>
            /\ lastResponse'.code = IF PassesValidation(r) THEN 503 ELSE 400]_vars

C8_Witness ==
    ~token /\ lastResponse.code = 503 /\ generationJobs = <<>> /\ pc = <<>>

C10_Inserted ==
    /\ DOMAIN pc = JobIds
    /\ \A j \in JobIds :
        /\ GetJobById(j, TRUE).code = 200
        /\ GetJobById(j, FALSE).code # 404
        /\ pc[j] = "update10" =>
              Job(j).status = "pending" /\ Job(j).progress = 0
    /\ lastResponse.code = 202 =>
        /\ lastResponse.body.job.status = "pending"
        /\ lastResponse.body.job.progress = 0
        /\ GetJobById(lastResponse.body.id, TRUE).code = 200
        /\ GetJobById(lastResponse.body.id, TRUE).body.job.menuItemId
               = lastResponse.body.job.menuItemId

\* a step that answers 202 has appended the job of the body, pending with
\* progress 0, and left its task before the first update
C10_Accepts ==
    (Answers /\ lastResponse'.code = 202) =>
        /\ lastResponse'.body.id = Len(generationJobs) + 1
        /\ generationJobs' = Append(generationJobs, lastResponse'.body.job)
        /\ pc' = Append(pc, "update10")

C11_CompletedAtSetIffCompleted ==
    \A j \in JobIds :
        (Job(j).completedAt # NULL) <=> (Job(j).status = "completed")

\* C12: whenever a job's task has finished with status completed, the
\* registry holds exactly one entry for the job's dish and that entry's
\* modelUrl is the job's final modelUrl
C12_CompletedJobHasItsArtifact ==
    \A j \in JobIds :
        (Finished(j) /\ Job(j).status = "completed") =>
            /\ Cardinality(ModelsOf(Job(j).menuItemId)) = 1
            /\ \A k \in ModelsOf(Job(j).menuItemId) :
                    models3D[k].modelUrl = Job(j).modelUrl

\* the models_3d rows that job j's task inserted
InsertedBy(j) == {k \in 1..Len(insertedBy) : insertedBy[k] = j}

\* C13: every registry entry was inserted by one job on that job's success
\* path (the job is completed and its task over), no job has inserted more
\* than one entry, and a failed job has inserted none
C13_EntryFromOneSuccessPath ==
    /\ Len(insertedBy) = Len(models3D)
    /\ \A k \in 1..Len(models3D) :
        /\ insertedBy[k] \in JobIds
        /\ pc[insertedBy[k]] = "done"
        /\ Job(insertedBy[k]).status = "completed"
        /\ Job(insertedBy[k]).menuItemId = models3D[k].menuItemId
    /\ \A j \in JobIds :
        /\ Cardinality(InsertedBy(j)) <= 1
        /\ Job(j).status = "failed" => InsertedBy(j) = {}

\* one job has inserted the entry of its dish and another job, whose insert
\* the registry rejected, has ended failed
C13_Witness ==
    \E i, j \in JobIds :
        /\ InsertedBy(i) # {}
        /\ Finished(j) /\ Job(j).status = "failed"
        /\ caught[j] = UniqueViolation

\* the error a provider call rejected with HTTP 401 throws
Unauthorized == [status |-> 401, message |-> "Unauthorized"]

\* C14: a job whose provider call threw an error with status 401 ends
\* failed, with the authentication text in its error column, that text being
\* different from the text of every error with another status or with none,
\* and the job has inserted no registry entry
C14_AuthFailureRecorded ==
    /\ \A j \in JobIds :
        (Finished(j) /\ caught[j].status = 401) =>
            /\ Job(j).status = "failed"
            /\ Job(j).error = "Replicate API authentication failed. Please check your REPLICATE_API_TOKEN in .env.local"
            /\ InsertedBy(j) = {}
    /\ \A j \in JobIds :
        (Finished(j) /\ caught[j].status # 401) =>
            Job(j).error # ErrorMessage(Unauthorized)

\* C15: every accepted job eventually reaches completed or failed.  The task
\* is a loop-free sequence of awaits and nothing else writes the job's
\* status, so when every awaited call returns or throws the job stays
\* pending or processing forever exactly when its task has ended and left it
\* so: no task ends leaving its job pending or processing
C15_EndedTaskLeavesTerminalJob ==
    \A j \in JobIds :
        Finished(j) => Job(j).status \in {"completed", "failed"}

\* C16: every response of the submission endpoint is 202, 400 or 503
C16_SubmissionAnswers202Or400Or503 ==
    lastResponse.route = "POST /api/generate-3d" =>
        lastResponse.code \in {202, 400, 503}

\* what job j's task leaves in the row when no other job exists, for a task
\* whose provider call returned a mesh and whose ledger calls all returned:
\* completed, with the saved file's URL, or the provider's URL when the
\* download failed
OutcomeAlone(j) ==
    [status |-> "completed",
     modelUrl |-> IF downloadError[j] = DownloadFailed THEN output[j]
                  ELSE SavedModelUrl(output[j]),
     error |-> NULL]

\* the final outcome of job j
Outcome(j) ==
    [status |-> Job(j).status, modelUrl |-> Job(j).modelUrl,
     error |-> Job(j).error]

\* C17: the final outcome of a job is the one it has when no other job
\* exists (stated for the jobs whose provider call returned a mesh and whose
\* task met no failure of its own but a failed download: the registry's
\* rejection of an insert is the effect of another job)
C17_OutcomeIndependentOfOtherJobs ==
    \A j \in JobIds :
        ( /\ Finished(j)
          /\ output[j] # NULL
          /\ downloadError[j] \in {NoError, DownloadFailed, UniqueViolation}
          /\ caught[j] \in {NoError, UniqueViolation} )
        => Outcome(j) = OutcomeAlone(j)

\* C18: no file under uploads/models is ever overwritten: no step changes
\* or removes the content of a file that exists
C18_NoModelFileOverwritten ==
    [][\A f \in DOMAIN modelsDir :
            f \in DOMAIN modelsDir' /\ modelsDir'[f] = modelsDir[f]]_vars

\* a step that answers one of the two read requests
Reads ==
    /\ Answers
    /\ lastResponse'.route \in {"GET /api/generation-jobs",
                                "GET /api/generation-jobs/:id"}

\* C19 as claimed: the two read requests change no row of the ledger or of
\* the registry, and the request for one job is answered 404 exactly when
\* the ledger holds no job of that id
C19_ReadsChangeNothing404IffUnknown ==
    [][Reads =>
        /\ UNCHANGED <<generationJobs, models3D>>
        /\ \A id \in JobIdParams : GetGenerationJob(id) =>
                (lastResponse'.code = 404 <=> id \notin JobIds)]_vars

\* C19 as amended: the two read requests change no row of the ledger or of
\* the registry; the request for one job is answered 500 when the select
\* throws, and otherwise 404 when the ledger holds no job of that id and 200
\* when it holds one: a 404 is only sent for an unknown id, a 200 only for a
\* known one
C19_ReadsChangeNothing404Or500 ==
    [][Reads =>
        /\ UNCHANGED <<generationJobs, models3D>>
        /\ \A id \in JobIdParams : GetGenerationJob(id) =>
                /\ lastResponse'.code \in {200, 404, 500}
                /\ lastResponse'.code = 200 => id \in JobIds
                /\ lastResponse'.code = 404 => id \notin JobIds]_vars

\* a request for an unknown job was answered 404 while the ledger holds a
\* job whose task is running
C19_Witness ==
    /\ lastResponse.route = "GET /api/generation-jobs/:id"
    /\ lastResponse.code = 404
    /\ \E j \in JobIds : ~Finished(j)

\* C20: the progress values a task has written are strictly increasing: each
\* write of progress is greater than the one before it, and no value is
\* written twice
C20_ProgressWritesStrictlyIncrease ==
    \A j \in JobIds :
        \A k \in 1..Len(progressWrites[j]) :
            /\ progressWrites[j][k] \in {10, 30, 60, 70, 100}
            /\ k > 1 => progressWrites[j][k] > progressWrites[j][k - 1]

IsWrite(e) == e.op = "updateGenerationJob"

\* the updates job j's task has persisted, in order
Writes(j) == SelectSeq(events[j], IsWrite)

\* every entry of events[j] that satisfies `later` has an entry that
\* satisfies `earlier` before it
Precedes(j, earlier(_), later(_)) ==
    \A k \in 1..Len(events[j]) :
        later(events[j][k]) => \E i \in 1..(k - 1) : earlier(events[j][i])

IsWrite30(e) == IsWrite(e) /\ e.updates = [progress |-> 30]

IsWrite60(e) == IsWrite(e) /\ e.updates = [progress |-> 60]

IsWrite70(e) == IsWrite(e) /\ e.updates = [progress |-> 70]

IsWriteCompleted(e) ==
    /\ IsWrite(e)
    /\ "status" \in DOMAIN e.updates
    /\ e.updates.status = "completed" /\ e.updates.progress = 100

IsRunCall(e) == e = [op |-> "run"]

IsRunReturn(e) == e = [op |-> "run", returned |-> TRUE]

IsDownload(e) == e = [op |-> "download"]

IsInsert(e) == e = [op |-> "create3DModel"]

\* the task of job j has ended and no call but, at most, the download threw
SuccessPath(j) ==
    /\ pc[j] = "done"
    /\ caught[j] = NoError
    /\ downloadError[j] \in {NoError, DownloadFailed}

\* C21: on the success path the task's ledger writes are, in this order,
\* (processing, 10), 30, 60, 70, (completed, 100); on every path the
\* provider is called after 30 is persisted, 60 is persisted after the
\* provider call returned, the download is attempted after 70 is persisted
\* and the registry insert is issued after (completed, 100) is persisted
C21_CheckpointOrder ==
    \A j \in JobIds :
        /\ SuccessPath(j) =>
            Writes(j) =
                << Wrote([status |-> "processing", progress |-> 10]),
                   Wrote([progress |-> 30]),
                   Wrote([progress |-> 60]),
                   Wrote([progress |-> 70]),
                   Wrote([status |-> "completed",
                          modelUrl |-> Job(j).modelUrl,
                          progress |-> 100]) >>
        /\ Precedes(j, IsWrite30, IsRunCall)
        /\ Precedes(j, IsRunReturn, IsWrite60)
        /\ Precedes(j, IsWrite70, IsDownload)
        /\ Precedes(j, IsWriteCompleted, IsInsert)

\* a task has run the success path to its end, download included
C21_Witness ==
    \E j \in JobIds :
        /\ SuccessPath(j) /\ downloadError[j] = NoError
        /\ \E k \in 1..Len(events[j]) : IsInsert(events[j][k])

IsWriteFailed(e) ==
    /\ IsWrite(e)
    /\ "status" \in DOMAIN e.updates
    /\ e.updates.status = "failed"

\* C22: once a task has written failed it makes no further ledger write,
\* provider call, download or registry insert (the write is the last entry
\* of its events and the task is over), the job stays failed, and no task
\* calls the provider more than once
C22_FailedIsTerminalNoRetry ==
    \A j \in JobIds :
        /\ \A k \in 1..Len(events[j]) :
            IsWriteFailed(events[j][k]) =>
                /\ k = Len(events[j])
                /\ pc[j] = "done"
                /\ Job(j).status = "failed"
        /\ Cardinality({k \in 1..Len(events[j]) : IsRunCall(events[j][k])})
               <= 1

\* a job whose provider call threw has been written failed
C22_Witness ==
    \E j \in JobIds :
        /\ caught[j] \in RunErrors
        /\ Job(j).status = "failed"
        /\ \E k \in 1..Len(events[j]) : IsRunCall(events[j][k])

\* C23: a step changes the row of job i only if it is a step of the task of
\* job i, and it then changes no other row: no task writes another job's row
C23_TaskWritesOwnRowOnly ==
    [][\A i \in JobIds :
        generationJobs'[i] # generationJobs[i] =>
            /\ pc'[i] # pc[i]
            /\ \A k \in JobIds \ {i} : generationJobs'[k] = generationJobs[k]
      ]_vars

\* two tasks are running, each having persisted its own progress
C23_Witness ==
    \E i, j \in JobIds :
        /\ ~Finished(i) /\ ~Finished(j)
        /\ Job(i).progress = 30
        /\ Job(j).progress = 70

\* C26: the status of a job only changes from pending to processing, from
\* processing to completed and from processing to failed; completed is
\* absorbing, so a reader that has seen completed sees it on every later
\* read (stated for the jobs whose task met no database outage; a registry
\* insert rejected by the UNIQUE constraint is within it)
C26_StatusTransitions ==
    [][\A j \in JobIds :
        (NoOutage(j))' =>
            \/ generationJobs'[j].status = Job(j).status
            \/ <<Job(j).status, generationJobs'[j].status>> \in
                    { <<"pending", "processing">>,
                      <<"processing", "completed">>,
                      <<"processing", "failed">> }]_vars

\* C27: modelUrl is write-once: once a job's modelUrl is set, no step
\* changes it
C27_ModelUrlWriteOnce ==
    [][\A j \in JobIds :
        Job(j).modelUrl # NULL =>
            generationJobs'[j].modelUrl = Job(j).modelUrl]_vars

\* C28: a submission answered 400 or 503 leaves uploads/images as it was,
\* so that no file stays behind for a request that created no job
C28_RejectedSubmissionStagesNothing ==
    [][(/\ Answers
        /\ lastResponse'.route = "POST /api/generate-3d"
        /\ lastResponse'.code \in {400, 503}) =>
            imagesDir' = imagesDir]_vars

\* C29: the submission checks apply in the order upload error, missing
\* menuItemId, missing image, unconfigured provider: the first check that
\* fails decides the reply, so an invalid request is answered 400 whether or
\* not the provider is configured, and 503 is only the reply to a request
\* that passes every validation check
C29_ChecksInFixedOrder ==
    \A r \in Requests :
        /\ MulterError(r.files) # NoError =>
            Rejection(r) = Reply(400, MulterError(r.files).message)
        /\ (MulterError(r.files) = NoError /\ r.menuItemId = "") =>
            Rejection(r) = Reply(400, "menuItemId is required")
        /\ ( /\ MulterError(r.files) = NoError
             /\ r.menuItemId # ""
             /\ Len(r.files) = 0 ) =>
            Rejection(r) = Reply(400, "1 image is required")
        /\ ~PassesValidation(r) => Rejection(r).code = 400
        /\ Rejection(r).code = 503 <=>
            (PassesValidation(r) /\ ~token /\ ~replicate)

\* an invalid submission has been answered 400 while the provider is not
\* configured
C29_Witness ==
    /\ ~token /\ ~replicate
    /\ lastResponse.route = "POST /api/generate-3d"
    /\ lastResponse.code = 400

\* C24: the dashboard's poller always stops: the interval is cleared by the
\* first answer that shows completed or failed, and by the give-up timer
\* otherwise, whatever the job's status; it issues at most 10 get-by-id
\* requests, one per 30 s, and none once cleared
C24_PollerStops ==
    /\ [](observed \in {"completed", "failed"} => pollInterval = "cleared")
    /\ [](polls <= GiveUpAfter /\ polls <= now)
    /\ [][pollInterval = "cleared" =>
            (polls' = polls /\ pollInterval' = "cleared")]_vars
    /\ [][(giveUp /\ ~giveUp') => pollInterval' = "cleared"]_vars
    /\ (pollInterval = "active") ~> (pollInterval = "cleared")

\* the give-up timer stops a poller that issued 10 requests and never saw a
\* terminal status: its job is still processing
C24_Witness ==
    /\ pollInterval = "cleared" /\ ~giveUp
    /\ polls = GiveUpAfter
    /\ observed = "processing"
    /\ generationJobs[pollJob].status = "processing"

\* C25: the public menu page polls the job list only while a job of the
\* restaurant's dishes is pending or processing or within 2 minutes of the
\* jobs' completion: once every job has been completed or failed for longer
\* than that and the page has fetched them so, refetchInterval returns false
\* and no fetch is due
C25_PollingStopsAfterGracePeriod ==
    (sinceTerminal > GracePeriod /\ queryData = getAllGenerationJobs) =>
        /\ refetchInterval(queryData) = NoRefetch
        /\ ~refetchDue

\* the orders in which a select without ORDER BY can return the ledger's rows
Orders ==
    {order \in [JobIds -> JobIds] :
        \A a, b \in JobIds : order[a] = order[b] => a = b}

\* the body of GET /api/generation-jobs in one of these orders
Listed(order) == [k \in JobIds |-> getAllGenerationJobs[order[k]]]

\* item.model3D of the dashboard's menu-items data: the dish's registry entry
model3D(itemId) ==
    IF ModelsOf(itemId) = {} THEN [modelUrl |-> NULL]
    ELSE models3D[CHOOSE k \in ModelsOf(itemId) : TRUE]

\* getJobForItem: generationJobs?.find(job => job.menuItemId === itemId)
getJobForItem(jobs, itemId) ==
    IF \E k \in 1..Len(jobs) : jobs[k].menuItemId = itemId
        THEN jobs[CHOOSE k \in 1..Len(jobs) :
                    /\ jobs[k].menuItemId = itemId
                    /\ \A h \in 1..(k - 1) : jobs[h].menuItemId # itemId]
        ELSE undefined

\* get3DStatus, on the page's job list and a menu item
get3DStatus(jobs, itemId) ==
    LET job == getJobForItem(jobs, itemId) IN
    IF job # undefined /\ job.status = "completed" /\ job.modelUrl # NULL
        THEN "ready"
    ELSE IF job # undefined /\ job.status \in {"processing", "pending"}
        THEN "processing"
    ELSE IF job # undefined /\ job.status = "failed"
        THEN "failed"
    ELSE IF model3D(itemId).modelUrl # NULL
        THEN "ready"
    ELSE "none"

\* C30: after a failed job and a later job of the same dish that completed
\* with a model URL, get3DStatus of the dish is "ready" in every order in
\* which the server can return the job list
C30_StatusReflectsMostRecentJob ==
    \A i, j \in JobIds :
        (/\ Follows(i, j)
         /\ Job(i).status = "failed"
         /\ Finished(j)
         /\ Job(j).status = "completed" /\ Job(j).modelUrl # NULL) =>
            \A order \in Orders :
                get3DStatus(Listed(order), Job(j).menuItemId) = "ready"

=============================================================================
